---- MODULE Spec2Model ----
(***************************************************************************)
(* Model of NII_to_DCM_Python.py: conversion of a NIfTI ground-truth       *)
(* segmentation volume into per-slice DICOM datasets.                      *)
(*                                                                         *)
(* The program is one sequential function, main.  Its position is pc; the  *)
(* Python names dcm_list, idx, gt_segs, nii_img, dcm_file and nii_slice    *)
(* are variables of the model.  The files on disk (the DICOM directory,    *)
(* the two NIfTI volumes, the pixel data of the DICOM series) are chosen   *)
(* from small sets by the step that first reads them.                      *)
(*                                                                         *)
(* The source fixes the geometry to 272 x 512 x 512 and the probe index to *)
(* 100; the model scales these to NumSlices x PlaneSize x PlaneSize and    *)
(* ProbeIdx.  Line 58 nests single quotes in an f-string, which Python     *)
(* accepts from version 3.12 on; the model is of a run under such a        *)
(* version, with assertions enabled.                                       *)
(*                                                                         *)
(* An n-dimensional numpy array is a record [nd, v]: nd is ndarray.ndim    *)
(* and v the nested sequences of its elements (1-based in the model,       *)
(* 0-based in Python).                                                     *)
(***************************************************************************)
EXTENDS Integers, Sequences, FiniteSets, TLC

VARIABLES
    pc,          \* position in main
    dir,         \* os.listdir(dcm_dir_path): the set of file names
    dcm_list,    \* list of matching file names, sorted
    idx,         \* Python variable idx
    gt_segs,     \* Python variable gt_segs
    nii_img,     \* Python variable nii_img
    dcm_file,    \* Python variable dcm_file (once it is a dataset)
    nii_slice,   \* Python variable nii_slice
    it,          \* next index of enumerate(dcm_list) in the for loop
    dcm_px,      \* disk: pixel array of the DICOM file with number k
    err,         \* the exception that ended the run, if any
    printed,     \* the final print has run
    written,     \* files written by this run
    processed,   \* history: loop iterations that ran to their end
    seg_loaded,  \* history: label volume as returned by get_fdata
    img_loaded,  \* history: image volume as returned by get_fdata
    tpc,         \* position in the transform round trip (SpecT)
    tX,          \* round trip: the input array
    tInv,        \* round trip: transform_inverse(tX)
    tOut,        \* round trip: transform(tInv)
    tFwd,        \* round trip: transform(tX)
    tTwice       \* round trip: transform(transform(tX))

vars == <<pc, dir, dcm_list, idx, gt_segs, nii_img, dcm_file, nii_slice, it,
          dcm_px, err, printed, written, processed, seg_loaded, img_loaded,
          tpc, tX, tInv, tOut, tFwd, tTwice>>

mainVars == <<pc, dir, dcm_list, idx, gt_segs, nii_img, dcm_file, nii_slice,
              it, dcm_px, err, printed, written, processed, seg_loaded,
              img_loaded>>

tVars == <<tpc, tX, tInv, tOut, tFwd, tTwice>>

(***************************************************************************)
(* Bounds                                                                  *)
(***************************************************************************)
NumSlices == 4      \* slice count (272 in the source)
PlaneSize == 2      \* in-plane height and width (512 in the source)
ProbeIdx == 1       \* probe index (100 in the source)
MaxH == 2           \* round trip: largest height of a synthetic array
MaxW == 3           \* round trip: largest width of a synthetic array

PixVals == {0, 1}   \* round trip: pixel values of a synthetic array

(***************************************************************************)
(* numpy                                                                   *)
(***************************************************************************)
NoArr == [nd |-> 0, v |-> <<>>]

Arr2(rows) == [nd |-> 2, v |-> rows]

Arr3(slices) == [nd |-> 3, v |-> slices]

\* ndarray.shape
Shape(a) ==
    IF a.nd = 0 THEN <<>>
    ELSE IF a.nd = 1 THEN <<Len(a.v)>>
    ELSE IF a.nd = 2 THEN <<Len(a.v), Len(a.v[1])>>
    ELSE <<Len(a.v), Len(a.v[1]), Len(a.v[1][1])>>

\* a[i, ...] is defined: a has an axis 0 and i is within it
CanIndex(a, i) == a.nd >= 1 /\ i < Len(a.v) /\ i >= 0 - Len(a.v)

\* a[i, ...], negative i counting from the end
Index(a, i) ==
    LET k == IF i < 0 THEN i + Len(a.v) ELSE i
    IN  [nd |-> a.nd - 1, v |-> a.v[k + 1]]

\* np.rot90 and np.fliplr raise ValueError on arrays of fewer than 2 axes
CanRot90(a) == a.nd >= 2

\* np.rot90(a): counterclockwise, result[i][j] = a[j][W-1-i] (0-based)
Rot90(a) ==
    LET h == Len(a.v)
        w == Len(a.v[1])
    IN  Arr2([i \in 1..w |-> [j \in 1..h |-> a.v[j][w + 1 - i]]])

\* np.flipud: what fliplr becomes when the wrong axis is reversed
FlipUD(a) ==
    LET h == Len(a.v)
        w == Len(a.v[1])
    IN  Arr2([i \in 1..h |-> [j \in 1..w |-> a.v[h + 1 - i][j]]])

\* np.fliplr(a): result[i][j] = a[i][W-1-j] (0-based)
FlipLR(a) ==
    LET h == Len(a.v)
        w == Len(a.v[1])
    IN  Arr2([i \in 1..h |-> [j \in 1..w |-> a.v[i][w + 1 - j]]])

\* the fixed in-plane transform: np.fliplr(np.rot90(a))
Transform(a) == FlipLR(Rot90(a))

\* its inverse (the source has none): undo the flip, then undo the
\* quarter turn by three more quarter turns
transform_inverse(a) == Rot90(Rot90(Rot90(FlipLR(a))))

\* conversion of one value to int16 (two's complement wrap)
Cast16(x) == ((x + 32768) % 65536) - 32768

\* a.astype('int16') on a 2D array
AsInt16(a) ==
    Arr2([i \in 1..Len(a.v) |-> [j \in 1..Len(a.v[1]) |-> Cast16(a.v[i][j])]])

\* np.unique(a - b) for 2D arrays of one shape
UniqueDiff(a, b) ==
    {a.v[i][j] - b.v[i][j] : i \in 1..Len(a.v), j \in 1..Len(a.v[1])}

\* len(np.unique(a - b)) == 1
Consistent(a, b) == Cardinality(UniqueDiff(a, b)) = 1

\* np.unique of a 3D array
Unique3(a) ==
    {a.v[s][i][j] : s \in 1..Len(a.v), i \in 1..Len(a.v[1]),
                    j \in 1..Len(a.v[1][1])}

SetMin(U) == CHOOSE m \in U : \A u \in U : m <= u

SetMax(U) == CHOOSE m \in U : \A u \in U : m >= u

\* the two bytes of an int16, little-endian
Bytes16(x) == <<(x % 65536) % 256, (x % 65536) \div 256>>

RECURSIVE FlatBytes(_)
FlatBytes(s) ==
    IF s = <<>> THEN <<>> ELSE Bytes16(Head(s)) \o FlatBytes(Tail(s))

RECURSIVE ConcatRows(_)
ConcatRows(rows) ==
    IF rows = <<>> THEN <<>> ELSE Head(rows) \o ConcatRows(Tail(rows))

\* ndarray.tobytes() of a 2D int16 array (row-major)
ToBytes(a) == FlatBytes(ConcatRows(a.v))

(***************************************************************************)
(* The files on disk                                                       *)
(***************************************************************************)
\* a file name: prefix, zero-padded number, extension.  Names with the
\* same prefix and extension sort lexicographically by their number.
FileName(pre, num, suf) == [pre |-> pre, num |-> num, suf |-> suf]

NoName == FileName("", 0, "")

IM(k) == FileName("IM-", k, "dcm")

OtherFiles == {FileName("XX-", 1, "dcm"), FileName("IM-", 1, "txt")}

\* the directories tried: n slice files, with or without other files
DirSet == {{IM(k) : k \in 1..n} \cup ex :
              n \in 0..(NumSlices + 1), ex \in {{}, OtherFiles}}

\* a PlaneSize x PlaneSize slice, zero but for two opposite corners
Img(v, w) ==
    Arr2([i \in 1..PlaneSize |-> [j \in 1..PlaneSize |->
            IF i = 1 /\ j = 1 THEN v
            ELSE IF i = PlaneSize /\ j = PlaneSize THEN w
            ELSE 0]])

LabelVol(x, y, z) ==
    Arr3([s \in 1..NumSlices |-> IF s = 1 THEN Img(x, y).v ELSE Img(z, x).v])

\* a label volume with a slice missing
ShortLabelVol == Arr3([s \in 1..(NumSlices - 1) |-> Img(1, 2).v])

SegFiles ==
    {LabelVol(x, y, z) : x \in {0, 1, 2}, y \in {-1, 1, 2, 3}, z \in {0, 3}}
    \cup {ShortLabelVol}

\* an image volume whose slices all differ
RefVol == Arr3([s \in 1..NumSlices |-> Img(2 * s - 1, 2 * s).v])

\* an image volume whose slices are all alike
RefVolFlat == Arr3([s \in 1..NumSlices |-> Img(40000, 6).v])

ShortRefVol == Arr3([s \in 1..(NumSlices - 1) |-> Img(1, 2).v])

ImgFiles == {RefVol, RefVolFlat, ShortRefVol}

\* a slice plus a constant
Offset(a, c) ==
    Arr2([i \in 1..Len(a.v) |-> [j \in 1..Len(a.v[1]) |-> a.v[i][j] + c]])

\* pixel arrays a DICOM file may hold: every slice of RefVol as the
\* scanner exported it, a slice of RefVolFlat, and the probe slice with
\* every pixel raised by one
DcmSlices ==
    {Transform(Index(RefVol, s)) : s \in 0..(NumSlices - 1)}
    \cup {Transform(Index(RefVolFlat, 0)),
          Offset(Transform(Index(RefVol, ProbeIdx)), 1)}

\* a series whose pixel arrays are one column too wide
WideSeries ==
    [k \in 1..NumSlices |->
        Arr2([i \in 1..PlaneSize |-> [j \in 1..(PlaneSize + 1) |-> 0]])]

DcmSeriesSet == [1..NumSlices -> DcmSlices] \cup {WideSeries}

(***************************************************************************)
(* pydicom                                                                 *)
(***************************************************************************)
NoDs == [name |-> NoName, pixel_array |-> NoArr, PixelData |-> <<>>]

\* pydicom.dcmread(dcm_dir_path / name)
DcmRead(px, name) ==
    [name |-> name, pixel_array |-> px[name.num], PixelData |-> <<>>]

(***************************************************************************)
(* list_files_in_dir                                                       *)
(***************************************************************************)
\* g.endswith('dcm') and g.startswith('IM-')
Matching(d) == {g \in d : g.suf = "dcm" /\ g.pre = "IM-"}

RECURSIVE SortNames(_)
SortNames(S) ==
    IF S = {} THEN <<>>
    ELSE LET m == CHOOSE x \in S : \A y \in S : x.num <= y.num
         IN  <<m>> \o SortNames(S \ {m})

NoErr == [kind |-> "none", slice |-> 0]

Error(kind) == [kind |-> kind, slice |-> 0]

SliceError(n) == [kind |-> "slice_mismatch", slice |-> n]

\* file_list of list_files_in_dir, and its assert
ListFiles ==
    /\ pc = "start"
    /\ \E d \in DirSet :
          /\ dir' = d
          /\ IF Matching(d) = {}
             THEN /\ pc' = "failed"
                  /\ err' = Error("no_dcm_files")
                  /\ dcm_list' = dcm_list
             ELSE /\ pc' = "check_count"
                  /\ err' = err
                  /\ dcm_list' = SortNames(Matching(d))
    /\ UNCHANGED <<idx, gt_segs, nii_img, dcm_file, nii_slice, it, dcm_px,
                   printed, written, processed, seg_loaded, img_loaded>>
    /\ UNCHANGED tVars

(***************************************************************************)
(* main                                                                    *)
(***************************************************************************)
\* the slice count a mistaken comparison would accept
CountOKAtLeast(l) == Len(l) >= NumSlices

\* len(dcm_list) == 272
CountOK(l) == Len(l) = NumSlices

CheckCount ==
    /\ pc = "check_count"
    /\ IF CountOK(dcm_list)
       THEN /\ pc' = "load_seg"
            /\ idx' = ProbeIdx
            /\ err' = err
       ELSE /\ pc' = "failed"
            /\ err' = Error("count")
            /\ idx' = idx
    /\ UNCHANGED <<dir, dcm_list, gt_segs, nii_img, dcm_file, nii_slice, it,
                   dcm_px, printed, written, processed, seg_loaded,
                   img_loaded>>
    /\ UNCHANGED tVars

VolShape == <<NumSlices, PlaneSize, PlaneSize>>

LoadSeg ==
    /\ pc = "load_seg"
    /\ \E vol \in SegFiles :
          /\ gt_segs' = vol
          /\ seg_loaded' = vol
          /\ IF Shape(vol) = VolShape
             THEN pc' = "check_classes" /\ err' = err
             ELSE pc' = "failed" /\ err' = Error("seg_shape")
    /\ UNCHANGED <<dir, dcm_list, idx, nii_img, dcm_file, nii_slice, it,
                   dcm_px, printed, written, processed, img_loaded>>
    /\ UNCHANGED tVars

\* the class check without its last assert
ClassErrorNoMax(vals) ==
    IF Cardinality(vals) # 3 THEN "class_count"
    ELSE IF SetMin(vals) # 0 THEN "class_min"
    ELSE "none"

\* the three asserts on seg_val_list; "none" when all pass
ClassError(vals) ==
    IF Cardinality(vals) # 3 THEN "class_count"
    ELSE IF SetMin(vals) # 0 THEN "class_min"
    ELSE IF SetMax(vals) # 2 THEN "class_max"
    ELSE "none"

CheckClasses ==
    /\ pc = "check_classes"
    /\ LET e == ClassError(Unique3(gt_segs))
       IN  IF e = "none"
           THEN pc' = "load_img" /\ err' = err
           ELSE pc' = "failed" /\ err' = Error(e)
    /\ UNCHANGED <<dir, dcm_list, idx, gt_segs, nii_img, dcm_file, nii_slice,
                   it, dcm_px, printed, written, processed, seg_loaded,
                   img_loaded>>
    /\ UNCHANGED tVars

LoadImg ==
    /\ pc = "load_img"
    /\ \E vol \in ImgFiles :
          /\ nii_img' = vol
          /\ img_loaded' = vol
          /\ IF Shape(vol) = VolShape
             THEN pc' = "load_probe" /\ err' = err
             ELSE pc' = "failed" /\ err' = Error("img_shape")
    /\ UNCHANGED <<dir, dcm_list, idx, gt_segs, dcm_file, nii_slice, it,
                   dcm_px, printed, written, processed, seg_loaded>>
    /\ UNCHANGED tVars

LoadProbe ==
    /\ pc = "load_probe"
    /\ \E series \in DcmSeriesSet :
          /\ dcm_px' = series
          /\ dcm_file' = DcmRead(series, dcm_list[idx + 1])
          /\ IF Shape(series[dcm_list[idx + 1].num])
                    = <<PlaneSize, PlaneSize>>
             THEN pc' = "probe" /\ err' = err
             ELSE pc' = "failed" /\ err' = Error("dcm_shape")
    /\ UNCHANGED <<dir, dcm_list, idx, gt_segs, nii_img, nii_slice, it,
                   printed, written, processed, seg_loaded, img_loaded>>
    /\ UNCHANGED tVars

\* nii_slice of the probe and the branch taken on it
Probe ==
    /\ pc = "probe"
    /\ nii_slice' = Transform(Index(nii_img, idx))
    /\ it' = 0
    /\ IF Consistent(nii_slice', dcm_file.pixel_array)
       THEN pc' = "fwd_loop"
       ELSE pc' = "reversed"
    /\ UNCHANGED <<dir, dcm_list, idx, gt_segs, nii_img, dcm_file, dcm_px,
                   err, printed, written, processed, seg_loaded, img_loaded>>
    /\ UNCHANGED tVars

\* the part of the state one iteration of the for loop reads and writes
LoopState ==
    [pc |-> pc, idx |-> idx, it |-> it, dcm_list |-> dcm_list,
     dcm_px |-> dcm_px, nii_slice |-> nii_slice, nii_img |-> nii_img,
     gt_segs |-> gt_segs, dcm_file |-> dcm_file, err |-> err,
     written |-> written, processed |-> processed]

\* an exception leaves main: the run ends with what was assigned so far
Raise(s, e) == [s EXCEPT !.pc = "failed", !.err = e]

\* the dataset after pixel_array and PixelData are replaced by px
WithPixels(ds, px) ==
    [ds EXCEPT !.pixel_array = px, !.PixelData = ToBytes(px)]

\* the loop as it would run with save_as enabled and slices kept in
\* variables of their own: each slice is checked, then written
FwdIterSaving(s, attrOK) ==
    LET i    == s.it
        ds   == DcmRead(s.dcm_px, s.dcm_list[i + 1])
        s1   == [s EXCEPT !.idx = i, !.it = i + 1, !.dcm_file = ds]
        img  == AsInt16(Transform(Index(s.nii_img, i)))
        seg  == AsInt16(Transform(Index(s.gt_segs, i)))
        ds2  == WithPixels(ds, seg)
    IN  IF ~Consistent(img, ds.pixel_array)
        THEN Raise(s1, SliceError(i + 1))
        ELSE [s1 EXCEPT !.dcm_file = ds2,
                        !.written = @ \cup {[name |-> ds.name,
                                             data |-> ds2.PixelData]},
                        !.processed = Append(@, [idx |-> i, ds |-> ds2])]

\* one iteration of "for idx, dcm_file in enumerate(dcm_list)".  attrOK:
\* whether the assignment to dcm_file.pixel_array is accepted; pixel_array
\* is a property of pydicom's Dataset, and assigning to a property that
\* has no setter raises AttributeError.
FwdIter(s, attrOK) ==
    LET i  == s.it
        ds == DcmRead(s.dcm_px, s.dcm_list[i + 1])
        s1 == [s EXCEPT !.idx = i, !.it = i + 1, !.dcm_file = ds]
    IN  IF ~CanIndex(s.nii_img, i) THEN Raise(s1, Error("IndexError"))
        ELSE IF ~CanRot90(Index(s.nii_img, i))
        THEN Raise(s1, Error("ValueError"))
        ELSE
        LET s2 == [s1 EXCEPT
                     !.nii_img = AsInt16(Transform(Index(s.nii_img, i)))]
        IN  IF ~Consistent(s.nii_slice, ds.pixel_array)
            THEN Raise(s2, SliceError(i + 1))
            ELSE IF ~CanIndex(s.gt_segs, i)
            THEN Raise(s2, Error("IndexError"))
            ELSE IF ~CanRot90(Index(s.gt_segs, i))
            THEN Raise(s2, Error("ValueError"))
            ELSE
            LET s3 == [s2 EXCEPT
                         !.gt_segs = AsInt16(Transform(Index(s.gt_segs, i)))]
                ds2 == WithPixels(ds, s3.gt_segs)
            IN  IF ~attrOK THEN Raise(s3, Error("AttributeError"))
                ELSE [s3 EXCEPT
                        !.dcm_file = ds2,
                        !.processed = Append(@, [idx |-> i, ds |-> ds2])]

\* the for loop of the forward branch, and the print after it
ForwardLoop ==
    /\ pc = "fwd_loop"
    /\ IF it < Len(dcm_list)
       THEN \E attrOK \in BOOLEAN :
               LET r == FwdIter(LoopState, attrOK)
               IN  /\ pc' = r.pc
                   /\ idx' = r.idx
                   /\ it' = r.it
                   /\ nii_img' = r.nii_img
                   /\ gt_segs' = r.gt_segs
                   /\ dcm_file' = r.dcm_file
                   /\ err' = r.err
                   /\ written' = r.written
                   /\ processed' = r.processed
                   /\ printed' = printed
       ELSE /\ pc' = "done"
            /\ printed' = TRUE
            /\ UNCHANGED <<idx, it, nii_img, gt_segs, dcm_file, err, written,
                           processed>>
    /\ UNCHANGED <<dir, dcm_list, nii_slice, dcm_px, seg_loaded, img_loaded>>
    /\ UNCHANGED tVars

RECURSIVE Reverse(_)
Reverse(l) == IF l = <<>> THEN <<>> ELSE Reverse(Tail(l)) \o <<Head(l)>>

\* the else branch: the mirrored probe is computed and compared, the
\* result of the comparison is dropped (the statement is a tuple
\* expression, not an assert); list.reverse() reverses dcm_list in place
\* and returns None, so enumerate raises TypeError before the loop body
Reversed ==
    /\ pc = "reversed"
    /\ idx' = (idx * (-1)) - 1
    /\ nii_slice' = Transform(Index(nii_img, idx'))
    /\ dcm_list' = Reverse(dcm_list)
    /\ pc' = "failed"
    /\ err' = Error("TypeError")
    /\ UNCHANGED <<dir, gt_segs, nii_img, dcm_file, it, dcm_px, printed,
                   written, processed, seg_loaded, img_loaded>>
    /\ UNCHANGED tVars

TOff ==
    /\ tpc = "off"
    /\ tX = NoArr
    /\ tInv = NoArr
    /\ tOut = NoArr
    /\ tFwd = NoArr
    /\ tTwice = NoArr

Init ==
    /\ pc = "start"
    /\ dir = {}
    /\ dcm_list = <<>>
    /\ idx = 0
    /\ gt_segs = NoArr
    /\ nii_img = NoArr
    /\ dcm_file = NoDs
    /\ nii_slice = NoArr
    /\ it = 0
    /\ dcm_px = <<>>
    /\ err = NoErr
    /\ printed = FALSE
    /\ written = {}
    /\ processed = <<>>
    /\ seg_loaded = NoArr
    /\ img_loaded = NoArr
    /\ TOff

Next ==
    \/ ListFiles
    \/ CheckCount
    \/ LoadSeg
    \/ CheckClasses
    \/ LoadImg
    \/ LoadProbe
    \/ Probe
    \/ ForwardLoop
    \/ Reversed

Spec == Init /\ [][Next]_vars

(***************************************************************************)
(* The in-plane transform on synthetic arrays                              *)
(***************************************************************************)
Arrays2D ==
    UNION {{Arr2(rows) : rows \in [1..h -> [1..w -> PixVals]]} :
              h \in 1..MaxH, w \in 1..MaxW}

InitT ==
    /\ pc = "off"
    /\ dir = {}
    /\ dcm_list = <<>>
    /\ idx = 0
    /\ gt_segs = NoArr
    /\ nii_img = NoArr
    /\ dcm_file = NoDs
    /\ nii_slice = NoArr
    /\ it = 0
    /\ dcm_px = <<>>
    /\ err = NoErr
    /\ printed = FALSE
    /\ written = {}
    /\ processed = <<>>
    /\ seg_loaded = NoArr
    /\ img_loaded = NoArr
    /\ tpc = "inverse"
    /\ tX \in Arrays2D
    /\ tInv = NoArr
    /\ tOut = NoArr
    /\ tFwd = NoArr
    /\ tTwice = NoArr

ApplyInverse ==
    /\ tpc = "inverse"
    /\ tInv' = transform_inverse(tX)
    /\ tpc' = "forward"
    /\ UNCHANGED <<tX, tOut, tFwd, tTwice>>
    /\ UNCHANGED mainVars

ApplyTransform ==
    /\ tpc = "forward"
    /\ tOut' = Transform(tInv)
    /\ tpc' = "twice"
    /\ UNCHANGED <<tX, tInv, tFwd, tTwice>>
    /\ UNCHANGED mainVars

ApplyTwice ==
    /\ tpc = "twice"
    /\ tFwd' = Transform(tX)
    /\ tTwice' = Transform(tFwd')
    /\ tpc' = "done"
    /\ UNCHANGED <<tX, tInv, tOut>>
    /\ UNCHANGED mainVars

NextT ==
    \/ ApplyInverse
    \/ ApplyTransform
    \/ ApplyTwice

SpecT == InitT /\ [][NextT]_vars

(***************************************************************************)
(* Properties                                                              *)
(***************************************************************************)
Terminated == pc \in {"done", "failed"}

\* the probe comparison has been made
Probed == nii_slice # NoArr

\* the payload the writer owes for label slice m (0-based)
Payload(m) == ToBytes(AsInt16(Transform(Index(seg_loaded, m))))

\* the run wrote exactly one file for series index i, holding label slice m
HasOutput(i, m) ==
    /\ Cardinality({f \in written : f.name = IM(i + 1)}) = 1
    /\ \A f \in written : f.name = IM(i + 1) => f.data = Payload(m)

\* reference slice i equals the transformed volume slice m
SliceAgrees(i, m) == Transform(Index(img_loaded, m)) = dcm_px[i + 1]

ProbeForward ==
    Consistent(Transform(Index(img_loaded, ProbeIdx)), dcm_px[ProbeIdx + 1])

ProbeMirrored ==
    Consistent(Transform(Index(img_loaded, NumSlices - 1 - ProbeIdx)),
               dcm_px[ProbeIdx + 1])

SeriesIdx == 0..(NumSlices - 1)

\* C1: every series index whose loop iteration has run to its end has
\* exactly one output file, named after reference slice i, whose payload is
\* the int16 transform of the loaded label slice i; a completed run has
\* run every iteration.
C1_OutputPerSlice ==
    /\ \A k \in 1..Len(processed) : HasOutput(processed[k].idx,
                                              processed[k].idx)
    /\ pc = "done" => Len(processed) = NumSlices

C3_OwnComparison ==
    /\ (pc = "failed" /\ err.kind = "slice_mismatch")
          => ~SliceAgrees(err.slice - 1, err.slice - 1)
    /\ \A k \in 1..Len(processed) :
          SliceAgrees(processed[k].idx, processed[k].idx)

\* C4: when the probe matches neither forward nor mirrored, the run ends
\* in a reconciliation error, with no slice processed or written and no
\* success message.
C4_FatalReconciliationError ==
    (Terminated /\ Probed /\ ~ProbeForward /\ ~ProbeMirrored)
       => /\ err.kind = "reconciliation"
          /\ processed = <<>>
          /\ written = {}
          /\ ~printed

\* C5: when the forward probe fails and the mirrored probe matches, the
\* run completes and output i holds the transform of label slice S-1-i.
C5_ReversedRunCompletes ==
    (Terminated /\ Probed /\ ~ProbeForward /\ ProbeMirrored)
       => /\ pc = "done"
          /\ \A i \in SeriesIdx : HasOutput(i, NumSlices - 1 - i)

ClassErrors == {"class_count", "class_min", "class_max"}

\* the label values are not exactly three, or not from 0 to 2
BadClasses(U) ==
    \/ Cardinality(U) # 3
    \/ 0 \notin U
    \/ 2 \notin U
    \/ \E u \in U : u < 0 \/ u > 2

\* C6: a label volume of the right shape whose distinct values are not
\* exactly three, or do not start at 0, or do not end at 2, never gets past
\* the class check: the run fails there, with no image volume and no
\* reference slice loaded and no slice processed.
C6_ClassCheck ==
    (seg_loaded # NoArr /\ Shape(seg_loaded) = VolShape
        /\ BadClasses(Unique3(seg_loaded)))
       => /\ pc \in {"check_classes", "failed"}
          /\ pc = "failed" => err.kind \in ClassErrors
          /\ nii_img = NoArr
          /\ img_loaded = NoArr
          /\ dcm_file = NoDs
          /\ dcm_px = <<>>
          /\ processed = <<>>
          /\ written = {}
          /\ ~printed

\* C6 witness: a label volume with two distinct values was rejected.
C6_Witness ==
    /\ pc = "failed"
    /\ err.kind = "class_count"
    /\ Cardinality(Unique3(seg_loaded)) = 2

\* the number of names in the directory that start with IM- and end with dcm
NumMatching == Cardinality({g \in dir : g.pre = "IM-" /\ g.suf = "dcm"})

\* C7: when the number of matching files is not the slice count, the run
\* fails with the count error before any volume or slice is loaded and
\* before the probe; with no matching file it fails inside
\* list_files_in_dir, before the list is returned.
C7_CountCheck ==
    (pc \notin {"start", "off"} /\ NumMatching # NumSlices)
       => /\ pc \in {"check_count", "failed"}
          /\ NumMatching = 0
                => pc = "failed" /\ err.kind = "no_dcm_files"
                   /\ dcm_list = <<>>
          /\ (NumMatching # 0 /\ pc = "failed") => err.kind = "count"
          /\ gt_segs = NoArr
          /\ nii_img = NoArr
          /\ dcm_file = NoDs
          /\ nii_slice = NoArr
          /\ processed = <<>>

\* C7 witness: a directory with one matching file too many was rejected.
C7_Witness ==
    /\ pc = "failed"
    /\ err.kind = "count"
    /\ NumMatching = NumSlices + 1

\* every reference slice agrees with the volume, in forward order
ForwardSeries == \A i \in SeriesIdx : SliceAgrees(i, i)

\* every reference slice agrees with the volume, in reversed order
ReversedSeries == \A i \in SeriesIdx : SliceAgrees(i, NumSlices - 1 - i)

\* C8: the success message is printed only when all S outputs are
\* written; a run that passed validation and whose series reconciles with
\* the volume (forward or reversed) ends with the message; a run that
\* ended in an error has not printed it.
C8_SuccessMessage ==
    /\ printed => \A i \in SeriesIdx :
                     \E f \in written : f.name = IM(i + 1)
    /\ (Terminated /\ Probed /\ (ForwardSeries \/ ReversedSeries))
          => printed
    /\ err # NoErr => ~printed

\* C9: at the head of every iteration of the per-slice loop gt_segs and
\* nii_img are the 3D volumes that were loaded.
C9_VolumesReadOnly ==
    pc = "fwd_loop" => gt_segs = seg_loaded /\ nii_img = img_loaded

Transpose(a) ==
    Arr2([i \in 1..Len(a.v[1]) |-> [j \in 1..Len(a.v) |-> a.v[j][i]]])

Square(a) == Len(a.v) = Len(a.v[1])

\* C10 as stated: the round trip returns X, and on square arrays the
\* transform is the transpose and applying it twice returns X.
C10_TransposeRoundTrip ==
    tpc = "done"
       => /\ tOut = tX
          /\ Square(tX) => tFwd = Transpose(tX) /\ tTwice = tX

\* C10 amended: the round trip returns X; the transform is the reflection
\* in the anti-diagonal, T(X)[i][j] = X[H-1-j][W-1-i] (0-based), which is
\* its own inverse, so applying it twice returns X.
C10_AntiTransposeRoundTrip ==
    tpc = "done"
       => /\ tOut = tX
          /\ tTwice = tX
          /\ Shape(tFwd) = <<Len(tX.v[1]), Len(tX.v)>>
          /\ \A i \in 1..Len(tX.v[1]), j \in 1..Len(tX.v) :
                tFwd.v[i][j] = tX.v[Len(tX.v) + 1 - j][Len(tX.v[1]) + 1 - i]

\* C10 witness: the round trip has run on a square array that the
\* transform changes.
C10_Witness ==
    /\ tpc = "done"
    /\ Square(tX)
    /\ Len(tX.v) >= 2
    /\ tFwd # tX

====
